---------------------------- MODULE Spec2Model ----------------------------
(***************************************************************************)
(* config.h of the ESP32 streamer: the header as a list of source lines,   *)
(* the preprocessor's pass over it each time a translation unit includes   *)
(* it, and the use the firmware makes of the macros it leaves defined.     *)
(*                                                                         *)
(* A string literal is the sequence of its characters; a macro's           *)
(* replacement list is one token (an integer, a string literal) or empty.  *)
(***************************************************************************)
EXTENDS Integers, Sequences, FiniteSets, TLC

\* How many times the translation unit includes config.h.
MaxIncludes == 4
\* How many GPIO numbers from the data pin's up an edited header may name.
MaxExtraPins == 2

---------------------------------------------------------------------------
\* Replacement lists

IntTok(n) == [kind |-> "int", num |-> n, text |-> <<>>]
StrTok(s) == [kind |-> "str", num |-> 0, text |-> s]
NoTok == [kind |-> "empty", num |-> 0, text |-> <<>>]

---------------------------------------------------------------------------
\* The constants of config.h (lines 5 to 18)

\* A station's own network name in place of the placeholder.
SsidOfAStation == <<"H","o","m","e","N","e","t">>

\* "YOUR-SSID"
WIFI_SSID == <<"Y","O","U","R","-","S","S","I","D">>

\* "YOUR-PASSWORD"
WIFI_PASSWORD == <<"Y","O","U","R","-","P","A","S","S","W","O","R","D">>

\* The endpoint written without its scheme.
StreamUrlNoScheme ==
  <<"1","9","2",".","1","6","8",".","5","0",".","4",":","8","0","0","0",
    "/","a","i","r","b","a","n","d",".","m","p","3">>

\* "http://192.168.50.4:8000/airband.mp3"
STREAM_URL ==
  <<"h","t","t","p",":","/","/",
    "1","9","2",".","1","6","8",".","5","0",".","4",":","8","0","0","0",
    "/","a","i","r","b","a","n","d",".","m","p","3">>

\* The data pin moved to GPIO26, the ESP32's other DAC channel.
DataPinOnOtherDac == 25 + 1

I2S_SPEAKER_DATA_PIN == 25

\* The bit clock wired to the GPIO next to the data pin.
BclkPinWired == I2S_SPEAKER_DATA_PIN + 1

I2S_SPEAKER_BCLK_PIN == -1

I2S_SPEAKER_LRCLK_PIN == -1

\* The amplifier-enable pin of the variants that define one.
AUDIO_AMP_ENABLE_PIN == 4

---------------------------------------------------------------------------
\* Source lines

Ifndef(n) == [kind |-> "ifndef", name |-> n, val |-> NoTok]
Define(n, v) == [kind |-> "define", name |-> n, val |-> v]
Endif == [kind |-> "endif", name |-> "", val |-> NoTok]
\* a blank line or a // comment
Text == [kind |-> "text", name |-> "", val |-> NoTok]

\* line 1: #ifndef CONFIG_H
GuardTest == Ifndef("CONFIG_H")

\* The guard defined under a name the test does not look at.
GuardDefineTypo == Define("CONFIG_H_", NoTok)

\* line 2: #define CONFIG_H
GuardDefine == Define("CONFIG_H", NoTok)

\* The header with a second, conflicting #define of the data pin left in
\* after the first.
ConfigHConflictingDefine(bclk, lrclk, data) ==
  << GuardTest, GuardDefine, Text, Text,
     Define("WIFI_SSID", StrTok(WIFI_SSID)),
     Define("WIFI_PASSWORD", StrTok(WIFI_PASSWORD)),
     Text, Text,
     Define("STREAM_URL", StrTok(STREAM_URL)),
     Text, Text, Text, Text, Text, Text,
     Define("I2S_SPEAKER_BCLK_PIN", IntTok(bclk)),
     Define("I2S_SPEAKER_LRCLK_PIN", IntTok(lrclk)),
     Define("I2S_SPEAKER_DATA_PIN", IntTok(data)),
     Define("I2S_SPEAKER_DATA_PIN", IntTok(data + 1)),
     Endif >>

\* config.h, line by line, with the three pin numbers its comment (lines 12
\* to 15) tells the user to set.
ConfigHWith(bclk, lrclk, data) ==
  << GuardTest,
     GuardDefine,
     Text,
     Text,
     Define("WIFI_SSID", StrTok(WIFI_SSID)),
     Define("WIFI_PASSWORD", StrTok(WIFI_PASSWORD)),
     Text,
     Text,
     Define("STREAM_URL", StrTok(STREAM_URL)),
     Text,
     Text,
     Text,
     Text,
     Text,
     Text,
     Define("I2S_SPEAKER_BCLK_PIN", IntTok(bclk)),
     Define("I2S_SPEAKER_LRCLK_PIN", IntTok(lrclk)),
     Define("I2S_SPEAKER_DATA_PIN", IntTok(data)),
     Text,
     Endif >>

\* The shipped header with an amplifier-enable pin defined on the data pin.
ConfigHStrayAmpPin ==
  SubSeq(ConfigHWith(I2S_SPEAKER_BCLK_PIN, I2S_SPEAKER_LRCLK_PIN,
                     I2S_SPEAKER_DATA_PIN), 1, 18)
    \o << Define("AUDIO_AMP_ENABLE_PIN", IntTok(I2S_SPEAKER_DATA_PIN)), Endif >>

\* config.h as shipped
ConfigH ==
  ConfigHWith(I2S_SPEAKER_BCLK_PIN, I2S_SPEAKER_LRCLK_PIN, I2S_SPEAKER_DATA_PIN)

\* The variant that also defines the amplifier-enable pin: the define sits
\* with the other audio output pins, before the closing #endif.
ConfigHAmp ==
  SubSeq(ConfigH, 1, 18)
    \o << Define("AUDIO_AMP_ENABLE_PIN", IntTok(AUDIO_AMP_ENABLE_PIN)) >>
    \o SubSeq(ConfigH, 19, 20)

\* The pin numbers an edited header may give: -1 (no pin) or a GPIO number.
PinChoices ==
  {-1} \cup (I2S_SPEAKER_DATA_PIN .. I2S_SPEAKER_DATA_PIN + MaxExtraPins)

\* The names the header configures the firmware with.
ConfigNames ==
  { "WIFI_SSID", "WIFI_PASSWORD", "STREAM_URL",
    "I2S_SPEAKER_BCLK_PIN", "I2S_SPEAKER_LRCLK_PIN", "I2S_SPEAKER_DATA_PIN" }

---------------------------------------------------------------------------
\* State

VARIABLES
  hdr,       \* the header file: a sequence of lines
  macros,    \* the macro table: name -> replacement list, for defined names
  ndefs,     \* name -> how many #define directives have defined it
  pc,        \* 0: in the including file; i > 0: at line i of the header
  skip,      \* inside the group of an #ifndef whose macro was defined
  includes,  \* #include "config.h" directives processed so far
  phase,     \* "cpp": preprocessing; "run": the built firmware runs
  mode,      \* the audio output mode the firmware chose
  lastRead   \* the constant the firmware last used, and the value it got

vars == << hdr, macros, ndefs, pc, skip, includes, phase, mode, lastRead >>

NoMacros == [n \in {} |-> NoTok]
NoCounts == [n \in {} |-> 0]
NoRead == [name |-> "", val |-> NoTok]

Bind(f, k, v) == [x \in DOMAIN f \cup {k} |-> IF x = k THEN v ELSE f[x]]

Start(h) ==
  /\ hdr = h
  /\ macros = NoMacros
  /\ ndefs = NoCounts
  /\ pc = 0
  /\ skip = FALSE
  /\ includes = 0
  /\ phase = "cpp"
  /\ mode = "none"
  /\ lastRead = NoRead

Init == Start(ConfigH)

\* The header with the pin numbers edited as its comment describes.
InitPins ==
  \E b \in PinChoices, l \in PinChoices, d \in PinChoices :
    Start(ConfigHWith(b, l, d))

\* Either variant of the header.
InitVariants == \E h \in {ConfigH, ConfigHAmp} : Start(h)

---------------------------------------------------------------------------
\* The preprocessor

AtLine == phase = "cpp" /\ pc \in 1..Len(hdr)

\* #include "config.h": enter the header at its first line.
Include ==
  /\ phase = "cpp"
  /\ pc = 0
  /\ includes < MaxIncludes
  /\ pc' = 1
  /\ includes' = includes + 1
  /\ UNCHANGED << hdr, macros, ndefs, skip, phase, mode, lastRead >>

\* #ifndef NAME: the group that follows is skipped when NAME is defined.
IfndefLine ==
  /\ AtLine
  /\ hdr[pc].kind = "ifndef"
  /\ skip' = (skip \/ hdr[pc].name \in DOMAIN macros)
  /\ pc' = pc + 1
  /\ UNCHANGED << hdr, macros, ndefs, includes, phase, mode, lastRead >>

\* #define NAME replacement: binds NAME, unless the line is being skipped.
DefineLine ==
  /\ AtLine
  /\ hdr[pc].kind = "define"
  /\ macros' = IF skip THEN macros
                       ELSE Bind(macros, hdr[pc].name, hdr[pc].val)
  /\ ndefs' = IF skip THEN ndefs
              ELSE Bind(ndefs, hdr[pc].name,
                        IF hdr[pc].name \in DOMAIN ndefs
                          THEN ndefs[hdr[pc].name] + 1 ELSE 1)
  /\ pc' = pc + 1
  /\ UNCHANGED << hdr, skip, includes, phase, mode, lastRead >>

\* #endif: closes the header's one conditional group.
EndifLine ==
  /\ AtLine
  /\ hdr[pc].kind = "endif"
  /\ skip' = FALSE
  /\ pc' = pc + 1
  /\ UNCHANGED << hdr, macros, ndefs, includes, phase, mode, lastRead >>

\* A blank line or a comment defines nothing.
TextLine ==
  /\ AtLine
  /\ hdr[pc].kind = "text"
  /\ pc' = pc + 1
  /\ UNCHANGED << hdr, macros, ndefs, skip, includes, phase, mode, lastRead >>

\* The end of the header: back in the including file.
EndOfFile ==
  /\ phase = "cpp"
  /\ pc = Len(hdr) + 1
  /\ pc' = 0
  /\ UNCHANGED << hdr, macros, ndefs, skip, includes, phase, mode, lastRead >>

\* The translation unit ends, having included the header at least once, with
\* every name the firmware uses defined; the macro table is what the
\* firmware is built with.
Build ==
  /\ phase = "cpp"
  /\ pc = 0
  /\ includes >= 1
  /\ ConfigNames \subseteq DOMAIN macros
  /\ phase' = "run"
  /\ UNCHANGED << hdr, macros, ndefs, pc, skip, includes, mode, lastRead >>

---------------------------------------------------------------------------
\* The firmware

Pin(n) == macros[n].num

\* True I2S mode decided on the bit clock alone.
UseTrueI2SOnBclkAlone == Pin("I2S_SPEAKER_BCLK_PIN") # -1

\* True I2S mode needs all three pin numbers; -1 is no pin.
UseTrueI2S ==
  /\ Pin("I2S_SPEAKER_BCLK_PIN") # -1
  /\ Pin("I2S_SPEAKER_LRCLK_PIN") # -1
  /\ Pin("I2S_SPEAKER_DATA_PIN") # -1

\* The audio output driver picks its mode once, from the pin constants.
SelectOutputMode ==
  /\ phase = "run"
  /\ mode = "none"
  /\ mode' = IF UseTrueI2S THEN "I2S" ELSE "DAC"
  /\ UNCHANGED << hdr, macros, ndefs, pc, skip, includes, phase, lastRead >>

\* A runtime step uses a constant: it reads the value the build gave it.
Read ==
  /\ phase = "run"
  /\ \E n \in ConfigNames :
       lastRead' = [name |-> n, val |-> macros[n]]
  /\ UNCHANGED << hdr, macros, ndefs, pc, skip, includes, phase, mode >>

---------------------------------------------------------------------------

Next ==
  \/ Include
  \/ IfndefLine
  \/ DefineLine
  \/ EndifLine
  \/ TextLine
  \/ EndOfFile
  \/ Build
  \/ SelectOutputMode
  \/ Read

Spec == Init /\ [][Next]_vars

SpecPins == InitPins /\ [][Next]_vars

SpecVariants == InitVariants /\ [][Next]_vars

---------------------------------------------------------------------------
\* What is said of the header

Defined(n) == n \in DOMAIN macros

\* The header has been included at least once and the preprocessor is back
\* in the including file, or the firmware built from it runs.
Included == pc = 0 /\ includes >= 1

\* The replacement list the header's text gives a name: that of its first
\* #define line for it.
HeaderLinesOf(n) ==
  { i \in 1..Len(hdr) : hdr[i].kind = "define" /\ hdr[i].name = n }
HeaderValue(n) ==
  hdr[CHOOSE i \in HeaderLinesOf(n) : \A j \in HeaderLinesOf(n) : i <= j].val

\* C1: the bit clock and word clock pins are -1 wherever the header has
\* defined them, it defines both, and the firmware built from it never
\* selects true I2S mode.
ClockPinsUnset ==
  /\ \A n \in {"I2S_SPEAKER_BCLK_PIN", "I2S_SPEAKER_LRCLK_PIN"} :
       /\ Defined(n) => macros[n] = IntTok(-1)
       /\ Included => Defined(n)
  /\ mode # "I2S"

ClockPinsUnsetSeen ==
  /\ phase = "run"
  /\ mode = "DAC"
  /\ macros["I2S_SPEAKER_BCLK_PIN"] = IntTok(-1)
  /\ macros["I2S_SPEAKER_LRCLK_PIN"] = IntTok(-1)

\* C2: the data pin is 25 wherever the header has defined it, and the header
\* defines it.
DataPinIs25 ==
  /\ Defined("I2S_SPEAKER_DATA_PIN") =>
       macros["I2S_SPEAKER_DATA_PIN"] = IntTok(25)
  /\ Included => Defined("I2S_SPEAKER_DATA_PIN")

DataPinIs25Seen ==
  /\ phase = "run"
  /\ lastRead = [name |-> "I2S_SPEAKER_DATA_PIN", val |-> IntTok(25)]

\* None of the three pin numbers written in the header is -1.
AllPinsGiven ==
  \A n \in {"I2S_SPEAKER_BCLK_PIN", "I2S_SPEAKER_LRCLK_PIN",
            "I2S_SPEAKER_DATA_PIN"} : HeaderValue(n).num # -1

HttpScheme == <<"h","t","t","p",":","/","/">>
Digits == {"0","1","2","3","4","5","6","7","8","9"}

\* the first position of character c in s, 0 when it has none
FirstIndex(s, c) ==
  IF \E i \in 1..Len(s) : s[i] = c
    THEN CHOOSE i \in 1..Len(s) : s[i] = c /\ \A j \in 1..(i - 1) : s[j] # c
    ELSE 0

AfterScheme(u) == SubSeq(u, Len(HttpScheme) + 1, Len(u))
UrlAuthority(u) ==
  LET r == AfterScheme(u)
      k == FirstIndex(r, "/")
  IN  IF k = 0 THEN r ELSE SubSeq(r, 1, k - 1)
UrlPath(u) ==
  LET r == AfterScheme(u)
      k == FirstIndex(r, "/")
  IN  IF k = 0 THEN <<>> ELSE SubSeq(r, k, Len(r))
UrlHost(u) ==
  LET a == UrlAuthority(u)
      k == FirstIndex(a, ":")
  IN  IF k = 0 THEN a ELSE SubSeq(a, 1, k - 1)
UrlHasPort(u) == FirstIndex(UrlAuthority(u), ":") # 0
UrlPort(u) ==
  LET a == UrlAuthority(u)
      k == FirstIndex(a, ":")
  IN  IF k = 0 THEN <<>> ELSE SubSeq(a, k + 1, Len(a))

WellFormedHttpUrl(u) ==
  /\ Len(u) >= Len(HttpScheme)
  /\ SubSeq(u, 1, Len(HttpScheme)) = HttpScheme
  /\ Len(UrlHost(u)) > 0
  /\ UrlHasPort(u) =>
       /\ Len(UrlPort(u)) > 0
       /\ \A i \in 1..Len(UrlPort(u)) : UrlPort(u)[i] \in Digits
  /\ Len(UrlPath(u)) > 0
  /\ UrlPath(u)[1] = "/"

\* C4: STREAM_URL, wherever the header has defined it, is a
\* string literal that reads "http://", then a non-empty host, optionally ":" and a
\* port, then a path that begins with "/".
StreamUrlWellFormed ==
  /\ Defined("STREAM_URL") =>
       /\ macros["STREAM_URL"].kind = "str"
       /\ WellFormedHttpUrl(macros["STREAM_URL"].text)
  /\ Included => Defined("STREAM_URL")

StreamUrlWellFormedSeen ==
  /\ phase = "run"
  /\ lastRead.name = "STREAM_URL"
  /\ UrlHost(lastRead.val.text) = <<"1","9","2",".","1","6","8",".","5","0",".","4">>
  /\ UrlPort(lastRead.val.text) = <<"8","0","0","0">>
  /\ UrlPath(lastRead.val.text) = <<"/","a","i","r","b","a","n","d",".","m","p","3">>

\* C5: AUDIO_AMP_ENABLE_PIN is 4 wherever a header has defined it; the
\* variant that defines it leaves it defined, and the shipped header never
\* defines it.
AmpEnablePinIs4 ==
  /\ Defined("AUDIO_AMP_ENABLE_PIN") =>
       macros["AUDIO_AMP_ENABLE_PIN"] = IntTok(4)
  /\ (hdr = ConfigHAmp /\ Included) => Defined("AUDIO_AMP_ENABLE_PIN")
  /\ hdr = ConfigH =>
       /\ ~ Defined("AUDIO_AMP_ENABLE_PIN")
       /\ HeaderLinesOf("AUDIO_AMP_ENABLE_PIN") = {}

AmpEnablePinIs4Seen ==
  /\ Included
  /\ Defined("AUDIO_AMP_ENABLE_PIN")
  /\ macros["AUDIO_AMP_ENABLE_PIN"].num = 4

\* C6: no step, of the preprocessor or of the running firmware, changes or
\* removes a configuration constant once the header has defined it; the
\* running firmware holds for each the value the header's text gives it, and
\* a read returns that value.
ConstantsReadOnly ==
  /\ [][ \A n \in ConfigNames :
           Defined(n) => (n \in DOMAIN macros' /\ macros'[n] = macros[n]) ]_vars
  /\ [](phase = "run" =>
          /\ \A n \in ConfigNames : Defined(n) /\ macros[n] = HeaderValue(n)
          /\ lastRead # NoRead => lastRead.val = HeaderValue(lastRead.name))

ConstantsReadAtRuntime ==
  /\ phase = "run"
  /\ includes >= 2
  /\ mode = "DAC"
  /\ lastRead.name = "WIFI_PASSWORD"
  /\ lastRead.val = HeaderValue("WIFI_PASSWORD")

\* A placeholder: "YOUR-" followed by capital letters.
Capitals ==
  {"A","B","C","D","E","F","G","H","I","J","K","L","M",
   "N","O","P","Q","R","S","T","U","V","W","X","Y","Z"}

IsPlaceholder(s) ==
  /\ Len(s) > 5
  /\ SubSeq(s, 1, 5) = <<"Y","O","U","R","-">>
  /\ \A i \in 6..Len(s) : s[i] \in Capitals

\* C7: WIFI_SSID and WIFI_PASSWORD are placeholders: "YOUR-" followed by
\* capital letters naming the field, which the user is to replace.
CredentialsArePlaceholders ==
  \A n \in {"WIFI_SSID", "WIFI_PASSWORD"} :
    /\ Defined(n) => (macros[n].kind = "str" /\ IsPlaceholder(macros[n].text))
    /\ Included => Defined(n)

CredentialsArePlaceholdersSeen ==
  /\ Included
  /\ macros["WIFI_SSID"].text = <<"Y","O","U","R","-","S","S","I","D">>
  /\ macros["WIFI_PASSWORD"].text =
       <<"Y","O","U","R","-","P","A","S","S","W","O","R","D">>

\* The macro table one pass over header h leaves, from line i on, with
\* table m and skipping s.
RECURSIVE PassFrom(_, _, _, _)
PassFrom(h, i, m, s) ==
  IF i > Len(h) THEN m
  ELSE CASE h[i].kind = "ifndef" ->
              PassFrom(h, i + 1, m, s \/ h[i].name \in DOMAIN m)
         [] h[i].kind = "define" ->
              PassFrom(h, i + 1,
                       IF s THEN m ELSE Bind(m, h[i].name, h[i].val), s)
         [] h[i].kind = "endif" -> PassFrom(h, i + 1, m, FALSE)
         [] OTHER -> PassFrom(h, i + 1, m, s)

IncludedOnce(h) == PassFrom(h, 1, NoMacros, FALSE)

\* C8: however many times the header has been included, the macro table is
\* the one a single inclusion into an empty table yields, and every name in
\* it has been defined by exactly one #define.
IncludeIdempotent ==
  /\ \A n \in DOMAIN ndefs : ndefs[n] = 1
  /\ DOMAIN ndefs = DOMAIN macros
  /\ Included =>
       /\ macros = IncludedOnce(hdr)
       /\ ConfigNames \subseteq DOMAIN macros

IncludedAgain ==
  /\ pc = 0
  /\ includes >= 3
  /\ skip = FALSE
  /\ macros = IncludedOnce(hdr)

===========================================================================
